---- MODULE Spec2Model ----
(***************************************************************************)
(* Model of src/bridge.py: one relay pass (scan_blocks) between the         *)
(* "source" and the "destination" chain, together with the two chains the   *)
(* pass talks to (event log, the warden's transaction count and pool).      *)
(*                                                                          *)
(* Every call a pass makes to the outside (the configuration file, a chain) *)
(* is appended to io[p]; every line it prints is appended to out[p].  Both  *)
(* are cleared when the call is over.                                       *)
(***************************************************************************)
EXTENDS Integers, Sequences, FiniteSets, TLC

\* ------------------------------------------------------------------ bounds
\* Highest block number a chain answers; highest transaction count it reaches.
MaxHeight == 5
MaxNonce == 1

\* ------------------------------------------------------------ basic values
Chains == {"source", "destination"}

\* Arguments a caller may hand to scan_blocks as `chain`.
Directions == {"source", "destination", "north"}

\* Callers of scan_blocks.  Spec runs the calls of caller "A" one after the
\* other, as the program does.
Passes == {"A", "B"}

Max(a, b) == IF a >= b THEN a ELSE b

\* ---------------------------------------------------------------- amounts
\* A uint256 amount is a little-endian sequence of 16-bit limbs (base 65536),
\* so that values beyond 64 bits (more than four limbs) can be written down.

RECURSIVE Normalize(_)
Normalize(a) ==
    IF a = <<>> THEN <<>>
    ELSE IF a[Len(a)] = 0 THEN Normalize(SubSeq(a, 1, Len(a) - 1))
    ELSE a

\* 1000
Small == <<1000>>
\* 2^64
Wide == <<0, 0, 0, 0, 1>>
\* 123456789012345678901234567890
Huge == <<2770, 20031, 57582, 50035, 4086, 36585, 1>>

\* int(x) as a 64-bit machine integer would compute it: the low four limbs.
PyInt_u64(a) == Normalize(SubSeq(a, 1, IF Len(a) < 4 THEN Len(a) ELSE 4))

\* int(args['amount']): Python integers have arbitrary precision, the value
\* keeps every limb.
PyInt(a) == Normalize(a)

\* -------------------------------------------------------------- addresses
\* An address is the account it names and the spelling it is written in.
Address(id, form) == [id |-> id, form |-> form]
NoAddress == Address("-", "-")

\* Web3.to_checksum_address: same account, EIP-55 spelling.
to_checksum_address(a) == Address(a.id, "checksum")

\* ------------------------------------------------------ contract_info.json
\* One role's entry: the keys the dictionary holds and the warden values.
Entry(keys, pk, addr) ==
    [keys |-> keys, warden_private_key |-> pk, warden_address |-> addr]

EmptyDict == Entry({}, "-", NoAddress)
Plain == Entry({"address", "abi"}, "-", NoAddress)
Keyed(pk, addr) ==
    Entry({"address", "abi", "warden_private_key", "warden_address"}, pk, addr)
KeyOnly(pk) == Entry({"address", "abi", "warden_private_key"}, pk, NoAddress)

SourceEntries ==
    {EmptyDict, Plain, Keyed("pkS", Address("wS", "lower")), KeyOnly("pkS")}
DestinationEntries ==
    {EmptyDict, Plain, Keyed("pkD", Address("wD", "checksum"))}

ContractInfo(file, keys, s, d) ==
    [file |-> file, keys |-> keys, source |-> s, destination |-> d]

\* The configuration files a caller may point scan_blocks at.
ContractInfos ==
    {ContractInfo("unreadable", {}, EmptyDict, EmptyDict),
     ContractInfo("malformed", {}, EmptyDict, EmptyDict),
     ContractInfo("ok", {}, EmptyDict, EmptyDict)}
    \cup {ContractInfo("ok", {"source"}, s, EmptyDict) : s \in SourceEntries}
    \cup {ContractInfo("ok", {"destination"}, EmptyDict, d) :
              d \in DestinationEntries}
    \cup {ContractInfo("ok", Chains, s, d) :
              s \in SourceEntries, d \in DestinationEntries}

NoInfo == ContractInfo("unreadable", {}, EmptyDict, EmptyDict)

\* get_contract_info(chain, contract_info): "zero" is the value 0 returned
\* after the read failed, "KeyError" the exception of contracts[chain].
get_contract_info(chain, contract_info) ==
    IF contract_info.file # "ok"
    THEN [st |-> "zero", meta |-> EmptyDict]
    ELSE IF chain \notin contract_info.keys
    THEN [st |-> "KeyError", meta |-> EmptyDict]
    ELSE [st |-> "ok", meta |-> contract_info[chain]]

\* `not meta`: the value 0 and the empty dictionary are both falsy.
Falsy(r) == r.st = "zero" \/ r.meta.keys = {}

\* ----------------------------------------------------------------- events
\* A decoded log entry of a bridge contract.
Event(name, txid, block, token, recipient, amount) ==
    [event |-> name, transactionHash |-> txid, blockNumber |-> block,
     args |-> [token |-> token, recipient |-> recipient, amount |-> amount]]

\* The event logs the two contracts may hold, in block order.
LedgerA ==
    [source |->
        << Event("Deposit", "d1", 0, "tokA", "alice", Small),
           Event("Deposit", "d2", 2, "tokB", "bob", Huge),
           Event("Withdrawal", "w1", 2, "tokA", "carol", Small),
           Event("Deposit", "d3", 5, "tokA", "bob", Wide) >>,
     destination |->
        << Event("Unwrap", "u1", 0, "tokB", "carol", Wide),
           Event("Wrap", "m1", 3, "tokA", "alice", Small),
           Event("Unwrap", "u2", 4, "tokA", "alice", Huge) >>]

LedgerB ==
    [source |->
        << Event("Deposit", "d4", 4, "tokB", "carol", Huge) >>,
     destination |->
        << Event("Unwrap", "u3", 0, "tokA", "bob", Small),
           Event("Unwrap", "u4", 0, "tokB", "alice", Wide),
           Event("Unwrap", "u5", 5, "tokB", "bob", Small) >>]

Ledgers == {LedgerA, LedgerB}

RECURSIVE SelectEntries(_, _, _, _)
SelectEntries(log, name, from_block, to_block) ==
    IF log = <<>> THEN <<>>
    ELSE LET e == Head(log)
             rest == SelectEntries(Tail(log), name, from_block, to_block)
         IN IF e.event = name /\ from_block <= e.blockNumber
                /\ e.blockNumber <= to_block
            THEN <<e>> \o rest
            ELSE rest

\* ------------------------------------------------------- direction binding
\* Line 47: the directions scan_blocks accepts.
ValidChain_any(chain) == TRUE
ValidChain(chain) == chain \in {"source", "destination"}

\* The chain whose events the branch for `chain` reads.
ScannedSide(chain) == IF chain = "source" THEN "source" ELSE "destination"

\* The event the branch for `chain` filters on.
EventName(chain) == IF chain = "source" THEN "Deposit" ELSE "Unwrap"

\* The chain the branch for `chain` reads the nonce from and submits to.
TargetSide_same(chain) == chain
TargetSide_dst(chain) == "destination"
TargetSide(chain) == IF chain = "source" THEN "destination" ELSE "source"

\* The contract function the branch for `chain` calls.
FunctionName(chain) == IF chain = "source" THEN "wrap" ELSE "withdraw"

\* Lines 71-72: first block of the scanning window.
from_block_unclamped(latest) == latest - 4
from_block_latest(latest) == latest
from_block(latest) == Max(latest - 4, 0)

\* eth.chain_id as the two endpoints of connect_to answer it.
chain_id(side) == IF side = "source" THEN 43113 ELSE 97

\* ------------------------------------------------------------ transactions
\* build_transaction of lines 121-128 / 159-166 on the contract of `side`.
BuildTx_stale(side, fn, args, from, nonce) ==
    [to |-> side, fn |-> fn,
     args |-> <<args.token, args.recipient, PyInt(args.amount)>>,
     from |-> from, nonce |-> 0, gas |-> 250000,
     maxFeePerGas |-> 2000000000, maxPriorityFeePerGas |-> 1000000000,
     chainId |-> chain_id(side)]
BuildTx(side, fn, args, from, nonce) ==
    [to |-> side, fn |-> fn,
     args |-> <<args.token, args.recipient, PyInt(args.amount)>>,
     from |-> from, nonce |-> nonce, gas |-> 250000,
     maxFeePerGas |-> 2000000000, maxPriorityFeePerGas |-> 1000000000,
     chainId |-> chain_id(side)]

\* eth.account.sign_transaction(tx, private_key=pk)
sign_transaction(tx, pk) == [tx |-> tx, signer |-> pk]

\* ------------------------------------------------------------- the records
\* One call to the outside: the call, the role or chain it went to, the
\* event (0: none) it was made for, whether it answered, and its arguments
\* and answer.
IO(op, side, evt, ok, val) ==
    [op |-> op, side |-> side, evt |-> evt, ok |-> ok, val |-> val]

\* One printed line; hash holds the outbound transaction of a "sent" line.
Line(kind, side, origin, hash) ==
    [kind |-> kind, side |-> side, origin |-> origin, hash |-> hash]

\* The dispatch loop after the attempt for event i of n: the except clause
\* swallows the failure, the for statement goes on to the next event.
NextStep_abort(i, n, failed) ==
    IF failed \/ i >= n THEN "return" ELSE "nonce"
NextStep(i, n, failed) == IF i < n THEN "nonce" ELSE "return"

\* Line 64: both sessions answered that they are connected.
BothConnected_either(upS, upD) == upS \/ upD
BothConnected(upS, upD) == upS /\ upD

\* Lines 97-104 / 137-144: what evts holds after the filter answered with
\* `entries` (ok) or raised (the except clause sets evts = []).
QueryResult_keep(ok, entries) == entries
QueryResult(ok, entries) == IF ok THEN entries ELSE <<>>

\* The for statement: the event after event i is taken next, whether the
\* attempt for event i failed or not.
NextIdx_retry(i, failed) == IF failed THEN i ELSE i + 1
NextIdx(i, failed) == i + 1

\* Lines 120 / 158: the nonce of the attempt for event i is the count the
\* chain just answered, whatever nonce the attempt before used.
FreshNonce_cached(answer, previous, i) ==
    IF i = 1 THEN answer ELSE previous + 1
FreshNonce_bumped(answer, previous, i) == answer + i - 1
FreshNonce(answer, previous, i) == answer

\* `if not evts`
NoEvents_never(evts) == FALSE
NoEvents(evts) == evts = <<>>

\* Lines 81-89: which entry the warden is taken from.
WardenFrom_src(src_meta, dst_meta) == "source"
WardenFrom_dstfirst(src_meta, dst_meta) ==
    IF "warden_private_key" \in dst_meta.keys THEN "destination"
    ELSE IF "warden_private_key" \in src_meta.keys THEN "source"
    ELSE "none"
WardenFrom(src_meta, dst_meta) ==
    IF "warden_private_key" \in src_meta.keys THEN "source"
    ELSE IF "warden_private_key" \in dst_meta.keys THEN "destination"
    ELSE "none"

\* ------------------------------------------------------------------- state
VARIABLES
    pc,             \* where each pass stands
    chain,          \* its argument `chain`
    contract_info,  \* the configuration file it was pointed at
    meta,           \* src_meta and dst_meta
    latest,         \* latest_src and latest_dst
    warden,         \* warden_pk and warden_addr
    evts,           \* the events the query returned
    idx,            \* position of the for loop in evts (1-based)
    nonce,          \* nonce of the current attempt
    signed,         \* signed transaction of the current attempt, if built
    ret,            \* <<>> or the returned value
    io,             \* file and chain calls made by the pass, in order
    out,            \* lines printed by the pass, in order
    txCount,        \* each chain's mined transaction count of the warden
    pending,        \* nonces of the warden's accepted, unmined transactions
    ledger,         \* the event logs of the two bridge contracts
    lock            \* per direction, the caller holding the external lock

locals == <<chain, contract_info, meta, latest, warden, evts, idx, nonce,
            signed>>
chainvars == <<txCount, pending, ledger, lock>>
vars == <<pc, locals, ret, io, out, chainvars>>

NoMeta == [source |-> EmptyDict, destination |-> EmptyDict]
NoLatest == [source |-> 0, destination |-> 0]
NoWarden == [pk |-> "-", addr |-> NoAddress]

Init ==
    /\ pc = [p \in Passes |-> "idle"]
    /\ chain = [p \in Passes |-> "-"]
    /\ contract_info = [p \in Passes |-> NoInfo]
    /\ meta = [p \in Passes |-> NoMeta]
    /\ latest = [p \in Passes |-> NoLatest]
    /\ warden = [p \in Passes |-> NoWarden]
    /\ evts = [p \in Passes |-> <<>>]
    /\ idx = [p \in Passes |-> 0]
    /\ nonce = [p \in Passes |-> 0]
    /\ signed = [p \in Passes |-> <<>>]
    /\ ret = [p \in Passes |-> <<>>]
    /\ io = [p \in Passes |-> <<>>]
    /\ out = [p \in Passes |-> <<>>]
    /\ txCount = [c \in Chains |-> 0]
    /\ pending = [c \in Chains |-> {}]
    /\ ledger \in Ledgers
    /\ lock = [d \in Chains |-> "off"]

\* `return v`
Return(p, v) ==
    /\ ret' = [ret EXCEPT ![p] = <<v>>]
    /\ pc' = [pc EXCEPT ![p] = "done"]

\* An exception that leaves scan_blocks.
Raise(p) ==
    /\ ret' = ret
    /\ pc' = [pc EXCEPT ![p] = "crashed"]

Goto(p, label) ==
    /\ ret' = ret
    /\ pc' = [pc EXCEPT ![p] = label]

Did(p, calls) == io' = [io EXCEPT ![p] = io[p] \o calls]
Printed(p, lines) == out' = [out EXCEPT ![p] = out[p] \o lines]

\* ----------------------------------------------------------- scan_blocks
\* Lines 38-49: scan_blocks(c, ci) is called; an invalid direction returns.
Call(p) ==
    /\ pc[p] = "idle"
    /\ \E c \in Directions, ci \in ContractInfos :
        /\ chain' = [chain EXCEPT ![p] = c]
        /\ contract_info' = [contract_info EXCEPT ![p] = ci]
        /\ IF ValidChain(c)
           THEN Goto(p, "load") /\ out' = out
           ELSE /\ Return(p, 0)
                /\ Printed(p, <<Line("Invalid chain", c, "-", <<>>)>>)
    /\ UNCHANGED <<meta, latest, warden, evts, idx, nonce, signed, io,
                   chainvars>>

\* The call is over (a value was returned or an exception left the function):
\* its frame is gone, and the caller may call scan_blocks again.
Exit(p) ==
    /\ pc[p] \in {"done", "crashed"}
    /\ pc' = [pc EXCEPT ![p] = "idle"]
    /\ chain' = [chain EXCEPT ![p] = "-"]
    /\ contract_info' = [contract_info EXCEPT ![p] = NoInfo]
    /\ meta' = [meta EXCEPT ![p] = NoMeta]
    /\ latest' = [latest EXCEPT ![p] = NoLatest]
    /\ warden' = [warden EXCEPT ![p] = NoWarden]
    /\ evts' = [evts EXCEPT ![p] = <<>>]
    /\ idx' = [idx EXCEPT ![p] = 0]
    /\ nonce' = [nonce EXCEPT ![p] = 0]
    /\ signed' = [signed EXCEPT ![p] = <<>>]
    /\ ret' = [ret EXCEPT ![p] = <<>>]
    /\ io' = [io EXCEPT ![p] = <<>>]
    /\ out' = [out EXCEPT ![p] = <<>>]
    /\ UNCHANGED chainvars

\* Lines 55-59: both entries are loaded; a failed read gives 0, a missing
\* role key raises KeyError out of get_contract_info (line 34).
LoadConfig(p) ==
    /\ pc[p] = "load"
    /\ LET s == get_contract_info("source", contract_info[p])
           d == get_contract_info("destination", contract_info[p])
           failed(r, side) ==
               IF r.st = "zero"
               THEN <<Line("Failed to read contract info", side, "-", <<>>)>>
               ELSE <<>>
           read(r, side) ==
               <<IO("read_contract_info", side, 0, r.st # "zero", <<>>)>>
       IN CASE s.st = "KeyError" ->
                 /\ Raise(p)
                 /\ Did(p, read(s, "source"))
                 /\ UNCHANGED <<meta, out>>
            [] s.st # "KeyError" /\ d.st = "KeyError" ->
                 /\ Raise(p)
                 /\ Did(p, read(s, "source") \o read(d, "destination"))
                 /\ Printed(p, failed(s, "source"))
                 /\ UNCHANGED meta
            [] OTHER ->
                 /\ Did(p, read(s, "source") \o read(d, "destination"))
                 /\ Printed(p, failed(s, "source") \o failed(d, "destination"))
                 /\ IF Falsy(s) \/ Falsy(d)
                    THEN Return(p, 0) /\ UNCHANGED meta
                    ELSE /\ Goto(p, "connect")
                         /\ meta' = [meta EXCEPT ![p] =
                               [source |-> s.meta, destination |-> d.meta]]
    /\ UNCHANGED <<chain, contract_info, latest, warden, evts, idx, nonce,
                   signed, chainvars>>

\* Lines 61-66: both sessions are created, then asked whether they are
\* connected; `or` does not ask the destination when the source is down.
Connect(p) ==
    /\ pc[p] = "connect"
    /\ \E upS \in BOOLEAN, upD \in BOOLEAN :
        /\ Did(p, <<IO("connect_to", "source", 0, TRUE, <<>>),
                    IO("connect_to", "destination", 0, TRUE, <<>>),
                    IO("is_connected", "source", 0, TRUE, <<upS>>)>>
                  \o (IF upS
                      THEN <<IO("is_connected", "destination", 0, TRUE,
                                <<upD>>)>>
                      ELSE <<>>))
        /\ IF BothConnected(upS, upD)
           THEN Goto(p, "heights") /\ out' = out
           ELSE /\ Return(p, 0)
                /\ Printed(p, <<Line("Failed to connect", "-", "-", <<>>)>>)
    /\ UNCHANGED <<locals, chainvars>>

\* Lines 68-72: the latest block of both chains is read (each node answers
\* some height hs, hd); an RPC error of either read is not caught.
ReadHeights(p) ==
    /\ pc[p] = "heights"
    /\ \E res \in {"ok", "raise_src", "raise_dst"},
          hs \in 0..MaxHeight, hd \in 0..MaxHeight :
        LET rs == IO("block_number", "source", 0, res # "raise_src", <<hs>>)
            rd == IO("block_number", "destination", 0, res = "ok", <<hd>>)
        IN CASE res = "ok" ->
                  /\ Did(p, <<rs, rd>>)
                  /\ latest' = [latest EXCEPT ![p] =
                                    [source |-> hs, destination |-> hd]]
                  /\ Goto(p, "warden")
             [] res = "raise_src" ->
                  /\ hs = 0 /\ hd = 0
                  /\ Did(p, <<rs>>)
                  /\ Raise(p)
                  /\ UNCHANGED latest
             [] res = "raise_dst" ->
                  /\ hd = 0
                  /\ Did(p, <<rs, rd>>)
                  /\ latest' = [latest EXCEPT ![p]["source"] = hs]
                  /\ Raise(p)
    /\ UNCHANGED <<chain, contract_info, meta, warden, evts, idx, nonce,
                   signed, out, chainvars>>

\* Lines 74-89: the contracts are instantiated and the warden is resolved;
\* an entry without 'address' or 'abi', or a key without 'warden_address',
\* raises KeyError.
ResolveWarden(p) ==
    /\ pc[p] = "warden"
    /\ LET from == WardenFrom(meta[p].source, meta[p].destination)
           m == IF from = "source" THEN meta[p].source
                ELSE meta[p].destination
       IN CASE ~({"address", "abi"} \subseteq meta[p].source.keys)
               \/ ~({"address", "abi"} \subseteq meta[p].destination.keys) ->
                 /\ Raise(p)
                 /\ UNCHANGED <<warden, out>>
            [] OTHER ->
                 IF from = "none"
                 THEN /\ Return(p, 0)
                      /\ Printed(p, <<Line("warden not found", "-", "-",
                                           <<>>)>>)
                      /\ UNCHANGED warden
                 ELSE IF "warden_address" \notin m.keys
                 THEN /\ Raise(p)
                      /\ UNCHANGED <<warden, out>>
                 ELSE /\ warden' = [warden EXCEPT ![p] =
                            [pk |-> m.warden_private_key,
                             addr |-> to_checksum_address(m.warden_address)]]
                      /\ out' = out
                      /\ IF chain[p] \in {"source", "destination"}
                         THEN Goto(p, "query")
                         ELSE Return(p, 1)
    /\ UNCHANGED <<chain, contract_info, meta, latest, evts, idx, nonce,
                   signed, io, chainvars>>

\* Lines 95-108 / 135-148: the event filter over [from, latest] on the
\* scanned chain; a failing filter leaves evts empty; no events returns 0.
Query(p) ==
    /\ pc[p] = "query"
    /\ \E ok \in BOOLEAN :
        LET side == ScannedSide(chain[p])
            name == EventName(chain[p])
            lo == from_block(latest[p][side])
            hi == latest[p][side]
            got == QueryResult(ok, SelectEntries(ledger[side], name, lo, hi))
            warn == IF ok THEN <<>>
                    ELSE <<Line("Failed to fetch", side, "-", <<>>)>>
        IN /\ Did(p, <<IO("get_all_entries", side, 0, ok, <<name, lo, hi>>)>>)
           /\ evts' = [evts EXCEPT ![p] = got]
           /\ IF NoEvents(got)
              THEN /\ Printed(p, warn \o <<Line("No events", side, "-", <<>>)>>)
                   /\ Return(p, 0)
                   /\ UNCHANGED idx
              ELSE /\ Printed(p, warn)
                   /\ idx' = [idx EXCEPT ![p] = 1]
                   /\ IF got = <<>> THEN Return(p, 1) ELSE Goto(p, "nonce")
    /\ UNCHANGED <<chain, contract_info, meta, latest, warden, nonce, signed,
                   chainvars>>

\* The end of one attempt: a failure prints its line, then the loop goes on
\* or, after the last event, line 173 returns 1.
EndAttempt(p, failed, lines) ==
    /\ Printed(p, lines)
    /\ idx' = [idx EXCEPT ![p] = NextIdx(idx[p], failed)]
    /\ IF NextStep(idx[p], Len(evts[p]), failed) = "nonce"
       THEN Goto(p, "nonce")
       ELSE Return(p, 1)

FailedLine(p) ==
    Line("Failed to call", TargetSide(chain[p]),
         evts[p][idx[p]].transactionHash, <<>>)

\* Lines 120 / 158: the warden's transaction count on the target chain.
ReadNonce(p) ==
    /\ pc[p] = "nonce"
    /\ \E ok \in BOOLEAN :
        LET side == TargetSide(chain[p])
        IN /\ Did(p, <<IO("get_transaction_count", side, idx[p], ok,
                          <<warden[p].addr, txCount[side]>>)>>)
           /\ IF ok
              THEN /\ nonce' = [nonce EXCEPT ![p] =
                                   FreshNonce(txCount[side], nonce[p], idx[p])]
                   /\ Goto(p, "build")
                   /\ UNCHANGED <<idx, out>>
              ELSE /\ EndAttempt(p, TRUE, <<FailedLine(p)>>)
                   /\ UNCHANGED nonce
    /\ UNCHANGED <<chain, contract_info, meta, latest, warden, evts, signed,
                   chainvars>>

\* Lines 112-129 / 152-167: the chain id is read, the transaction is built
\* from the event's arguments and signed with the warden key.
BuildSign(p) ==
    /\ pc[p] = "build"
    /\ \E res \in {"ok", "chain_id", "build", "sign"} :
        LET side == TargetSide(chain[p])
            evt == evts[p][idx[p]]
            tx == BuildTx(side, FunctionName(chain[p]), evt.args,
                          warden[p].addr, nonce[p])
        IN /\ Did(p, <<IO("chain_id", side, idx[p], res # "chain_id",
                          <<chain_id(side)>>)>>)
           /\ IF res = "ok"
              THEN /\ signed' = [signed EXCEPT ![p] =
                                    <<sign_transaction(tx, warden[p].pk)>>]
                   /\ Goto(p, "send")
                   /\ UNCHANGED <<idx, out>>
              ELSE /\ EndAttempt(p, TRUE, <<FailedLine(p)>>)
                   /\ UNCHANGED signed
    /\ UNCHANGED <<chain, contract_info, meta, latest, warden, evts, nonce,
                   chainvars>>

\* Lines 130-133 / 168-171: the signed transaction is submitted; the node
\* refuses a nonce below the mined count, and any submission may fail.  An
\* accepted transaction waits in the node's pool until it is mined.
Send(p) ==
    /\ pc[p] = "send"
    /\ \E ok \in BOOLEAN :
        LET side == TargetSide(chain[p])
            evt == evts[p][idx[p]]
            raw == signed[p][1]
        IN /\ ok => raw.tx.nonce >= txCount[side]
           /\ Did(p, <<IO("send_raw_transaction", side, idx[p], ok,
                          <<raw>>)>>)
           /\ IF ok
              THEN /\ EndAttempt(p, FALSE,
                         <<Line("sent", side, evt.transactionHash, <<raw>>)>>)
                   /\ pending' = [pending EXCEPT ![side] =
                                     pending[side] \cup {raw.tx.nonce}]
              ELSE /\ EndAttempt(p, TRUE, <<FailedLine(p)>>)
                   /\ UNCHANGED pending
    /\ signed' = [signed EXCEPT ![p] = <<>>]
    /\ UNCHANGED <<chain, contract_info, meta, latest, warden, evts, nonce,
                   txCount, ledger, lock>>

\* ------------------------------------------------------------- the chains
\* A chain mines the pending transaction of the warden whose nonce is the
\* warden's count: the count that get_transaction_count answers goes up.
Mine(c) ==
    /\ txCount[c] < MaxNonce
    /\ txCount[c] \in pending[c]
    /\ txCount' = [txCount EXCEPT ![c] = txCount[c] + 1]
    /\ pending' = [pending EXCEPT ![c] = pending[c] \ {txCount[c]}]
    /\ UNCHANGED <<pc, locals, ret, io, out, ledger, lock>>

\* ------------------------------------------------------- the specification
Pass(p) ==
    \/ Call(p)
    \/ LoadConfig(p)
    \/ Connect(p)
    \/ ReadHeights(p)
    \/ ResolveWarden(p)
    \/ Query(p)
    \/ ReadNonce(p)
    \/ BuildSign(p)
    \/ Send(p)
    \/ Exit(p)

Next ==
    \/ Pass("A")
    \/ \E c \in Chains : Mine(c)

Spec == Init /\ [][Next]_vars

\* ------------------------------------------------------ reading the records
\* Positions in io[p] of the calls named op.
Calls(p, op) == {i \in DOMAIN io[p] : io[p][i].op = op}

\* Positions in io[p] of the calls that went to a chain.
ChainCalls(p) == {i \in DOMAIN io[p] : io[p][i].op # "read_contract_info"}

\* Positions in out[p] of the lines of one kind.
Lines(p, kind) == {i \in DOMAIN out[p] : out[p][i].kind = kind}

\* The pass has ended, by a return or by an exception.
Over(p) == pc[p] \in {"done", "crashed"}

\* C1: failure isolation.  When a pass that retrieved N >= 1 events has
\* returned, each of the N events had its attempt started (its nonce read
\* was made) whatever happened to the events before it; with K submissions
\* accepted there are exactly K "sent" lines, each pairing the event's
\* transaction id with the transaction submitted for it, and N-K "Failed"
\* lines.
C1_FailureIsolation ==
    \A p \in Passes :
        (pc[p] = "done" /\ Len(evts[p]) >= 1) =>
            LET N == Len(evts[p])
                ok == {i \in Calls(p, "send_raw_transaction") : io[p][i].ok}
            IN /\ \A k \in 1..N :
                    Cardinality({i \in Calls(p, "get_transaction_count") :
                                    io[p][i].evt = k}) = 1
               /\ Cardinality(Lines(p, "sent")) = Cardinality(ok)
               /\ Cardinality(Lines(p, "Failed to call")) = N - Cardinality(ok)
               /\ \A i \in ok :
                    \E l \in Lines(p, "sent") :
                        /\ out[p][l].origin =
                               evts[p][io[p][i].evt].transactionHash
                        /\ out[p][l].hash = io[p][i].val
               /\ ret[p] = <<1>>

\* A pass over two events has returned after the first attempt failed and
\* the second was sent.
C1_Witness ==
    \E p \in Passes :
        /\ pc[p] = "done" /\ Len(evts[p]) = 2
        /\ Cardinality(Lines(p, "sent")) = 1
        /\ out[p][1].kind = "Failed to call"
        /\ out[p][2].kind = "sent"

\* C2: direction binding.  A 'source' pass queries only Deposit, only on the
\* source chain, and reads the nonce and chain id from, and submits wrap
\* transactions to, the destination chain only; a 'destination' pass queries
\* only Unwrap on the destination chain and submits withdraw transactions to
\* the source chain only.
C2_DirectionBinding ==
    \A p \in Passes : \A i \in DOMAIN io[p] :
        LET c == io[p][i]
            src == chain[p] = "source"
            scanned == IF src THEN "source" ELSE "destination"
            target == IF src THEN "destination" ELSE "source"
        IN /\ c.op = "get_all_entries" =>
                /\ c.side = scanned
                /\ c.val[1] = (IF src THEN "Deposit" ELSE "Unwrap")
           /\ c.op \in {"get_transaction_count", "chain_id"} =>
                c.side = target
           /\ c.op = "send_raw_transaction" =>
                /\ c.side = target
                /\ c.val[1].tx.to = target
                /\ c.val[1].tx.fn = (IF src THEN "wrap" ELSE "withdraw")

\* A 'destination' pass has had a withdraw transaction accepted.
C2_Witness ==
    \E p \in Passes : \E i \in Calls(p, "send_raw_transaction") :
        chain[p] = "destination" /\ io[p][i].ok

\* C3: the scanning window.  Every event query uses as upper bound the
\* height h read from the scanned chain and as lower bound h-4, or 0 when
\* h < 4: never negative, never above h, at most 5 blocks.
C3_Window ==
    \A p \in Passes : \A i \in Calls(p, "get_all_entries") :
        LET lo == io[p][i].val[2]
            hi == io[p][i].val[3]
        IN /\ \E j \in Calls(p, "block_number") :
                /\ j < i
                /\ io[p][j].side = io[p][i].side
                /\ io[p][j].val = <<hi>>
           /\ lo >= 0 /\ lo <= hi /\ hi - lo + 1 <= 5
           /\ hi < 4 => lo = 0
           /\ hi >= 4 => lo = hi - 4

\* A query was made at a height below 4.
C3_Witness ==
    \E p \in Passes : \E i \in Calls(p, "get_all_entries") :
        io[p][i].val[3] = 2 /\ io[p][i].val[2] = 0

\* C4: the arguments of every transaction built for an event are the
\* event's token, recipient and amount, the amount limb for limb, also when
\* it is beyond 64 bits.
C4_ArgsVerbatim ==
    \A p \in Passes :
        /\ \A i \in Calls(p, "send_raw_transaction") :
            LET e == evts[p][io[p][i].evt]
            IN io[p][i].val[1].tx.args =
                   <<e.args.token, e.args.recipient, e.args.amount>>
        /\ signed[p] # <<>> =>
            LET e == evts[p][idx[p]]
            IN signed[p][1].tx.args =
                   <<e.args.token, e.args.recipient, e.args.amount>>

\* A transaction for the event of amount 123456789012345678901234567890 was
\* submitted.
C4_Witness ==
    \E p \in Passes : \E i \in Calls(p, "send_raw_transaction") :
        /\ evts[p][io[p][i].evt].args.amount = Huge
        /\ io[p][i].val[1].tx.args[3] = Huge

\* C5: a call with a direction other than 'source' and 'destination' has
\* returned 0 as soon as it is made, having printed the rejection only: no
\* file read and no chain call.
C5_InvalidDirection ==
    \A p \in Passes :
        (pc[p] # "idle" /\ chain[p] \notin {"source", "destination"}) =>
            /\ pc[p] = "done"
            /\ ret[p] = <<0>>
            /\ io[p] = <<>>
            /\ Len(out[p]) = 1 /\ out[p][1].kind = "Invalid chain"

\* A call with direction 'north' has returned.
C5_Witness ==
    \E p \in Passes : pc[p] = "done" /\ chain[p] = "north"

\* C6: every submitted transaction carries the nonce answered by the nonce
\* read made for the same event on the target chain before the submission,
\* is sent from the warden address (the configured account, in checksum
\* spelling), is signed with the warden key of the same configuration
\* entry, and carries the id answered by the target chain, not the scanned
\* chain's.
C6_NonceSignerChainId ==
    \A p \in Passes : \A i \in Calls(p, "send_raw_transaction") :
        LET c == io[p][i]
            t == c.val[1]
            target == IF chain[p] = "source" THEN "destination" ELSE "source"
        IN /\ \E j \in Calls(p, "get_transaction_count") :
                /\ j < i /\ io[p][j].ok
                /\ io[p][j].evt = c.evt
                /\ io[p][j].side = target
                /\ io[p][j].val = <<t.tx.from, t.tx.nonce>>
           /\ \E j \in Calls(p, "chain_id") :
                /\ j < i /\ io[p][j].ok
                /\ io[p][j].evt = c.evt
                /\ io[p][j].side = target
                /\ io[p][j].val = <<t.tx.chainId>>
           /\ t.tx.chainId = chain_id(target)
           /\ t.tx.chainId # chain_id(chain[p])
           /\ t.tx.from = warden[p].addr
           /\ t.tx.from.form = "checksum"
           /\ t.signer = warden[p].pk
           /\ \E r \in Chains :
                LET m == contract_info[p][r]
                IN /\ "warden_private_key" \in m.keys
                   /\ t.signer = m.warden_private_key
                   /\ t.tx.from.id = m.warden_address.id

\* The second event of a pass was submitted with nonce 1, the count read
\* for it.
C6_Witness ==
    \E p \in Passes : \E i \in Calls(p, "send_raw_transaction") :
        /\ io[p][i].ok
        /\ io[p][i].evt = 2
        /\ io[p][i].val[1].tx.nonce = 1

\* The dispatch phase was reached: events were retrieved and the first
\* attempt was started.
Dispatched(p) ==
    evts[p] # <<>> /\ Calls(p, "get_transaction_count") # {}

\* C7: a pass that has ended returned 1 if the dispatch phase was reached
\* and returned 0 in every other case.
C7_ResultCode ==
    \A p \in Passes :
        Over(p) => ret[p] = (IF Dispatched(p) THEN <<1>> ELSE <<0>>)

\* C8: a pass whose event query returned no events has made no nonce read,
\* no chain id read and no submission, has printed no "sent" and no
\* "Failed" line, and has returned 0.
C8_NoEvents ==
    \A p \in Passes :
        (Calls(p, "get_all_entries") # {} /\ evts[p] = <<>>) =>
            /\ pc[p] = "done" /\ ret[p] = <<0>>
            /\ Calls(p, "get_transaction_count") = {}
            /\ Calls(p, "chain_id") = {}
            /\ Calls(p, "send_raw_transaction") = {}
            /\ Lines(p, "sent") = {}
            /\ Lines(p, "Failed to call") = {}
            /\ Lines(p, "No events") # {}

\* A 'source' pass whose query answered, with no Deposit in the window, has
\* returned.
C8_Witness ==
    \E p \in Passes : \E i \in Calls(p, "get_all_entries") :
        /\ chain[p] = "source" /\ io[p][i].ok
        /\ evts[p] = <<>> /\ pc[p] = "done"

\* The configuration was loaded for both roles and neither entry holds a
\* warden key.
NeitherCredential(p) ==
    /\ pc[p] # "idle"
    /\ contract_info[p].file = "ok"
    /\ contract_info[p].keys = Chains
    /\ "warden_private_key" \notin contract_info[p].source.keys
    /\ "warden_private_key" \notin contract_info[p].destination.keys

\* C9 as claimed: with no warden credential in either entry the pass makes
\* no chain call at all, and returns 0.
C9_AbortsBeforeChainIO ==
    \A p \in Passes :
        NeitherCredential(p) =>
            /\ ChainCalls(p) = {}
            /\ Over(p) => ret[p] = <<0>>

\* Both sessions answered connected and both block heights were read.
HeightsRead(p) ==
    /\ \A c \in Chains :
        /\ \E i \in Calls(p, "connect_to") : io[p][i].side = c
        /\ \E i \in Calls(p, "is_connected") :
               io[p][i].side = c /\ io[p][i].val = <<TRUE>>
        /\ \E i \in Calls(p, "block_number") :
               io[p][i].side = c /\ io[p][i].ok

\* C9 as amended: with no warden credential in either entry the pass makes
\* no event query, no nonce or chain id read and no submission; the missing
\* credential is reported only after both chains were connected and both
\* block heights read, and the pass that got that far has returned 0 with
\* that report.
C9_AbortsBeforeQuery ==
    \A p \in Passes :
        NeitherCredential(p) =>
            /\ \A i \in DOMAIN io[p] :
                io[p][i].op \notin {"get_all_entries", "get_transaction_count",
                                    "chain_id", "send_raw_transaction"}
            /\ Lines(p, "warden not found") # {} => HeightsRead(p)
            /\ (Over(p) /\ HeightsRead(p)) =>
                /\ pc[p] = "done" /\ ret[p] = <<0>>
                /\ out[p][Len(out[p])].kind = "warden not found"
            /\ pc[p] = "done" => ret[p] = <<0>>

\* A pass without any credential has reported the missing warden.
C9_Witness ==
    \E p \in Passes :
        /\ NeitherCredential(p)
        /\ pc[p] = "done"
        /\ Lines(p, "warden not found") # {}
        /\ Cardinality(ChainCalls(p)) = 6

\* The configuration file cannot be read, is not JSON, or lacks a role key.
BadConfiguration(p) ==
    /\ pc[p] # "idle"
    /\ ValidChain(chain[p])
    /\ \/ contract_info[p].file # "ok"
       \/ contract_info[p].keys # Chains

\* C10: a pass over such a configuration ends by returning 0, not by an
\* exception, and makes no chain call.
C10_ConfigErrorResult ==
    \A p \in Passes :
        BadConfiguration(p) =>
            /\ ChainCalls(p) = {}
            /\ Over(p) => (pc[p] = "done" /\ ret[p] = <<0>>)

\* ------------------------------------------------------------ connectivity
\* The configuration of pass p was loaded (both entries are in its frame).
Loaded(p) == meta[p] # NoMeta

\* Positions in io[p] of the calls line 64 must come before: height reads,
\* the event query, nonce reads, chain-id reads and submissions.
WorkCalls(p) ==
    {i \in DOMAIN io[p] :
        io[p][i].op \in {"block_number", "get_all_entries",
                         "get_transaction_count", "chain_id",
                         "send_raw_transaction"}}

\* A session of pass p answered that it is not connected.
Disconnected(p) ==
    \E i \in Calls(p, "is_connected") : io[p][i].val = <<FALSE>>

\* C11: fail fast on connectivity.  A pass whose configuration was loaded
\* and that is past lines 61-66 has created a session for the source and one
\* for the destination chain, whichever direction was asked for; when a
\* session answered that it is not connected the pass is over with result 0
\* and made no height read, event query, nonce read or submission; and any
\* such call is made only after both sessions answered that they are
\* connected.
C11_FailFast ==
    \A p \in Passes :
        LET work == WorkCalls(p)
            asked == Calls(p, "is_connected")
        IN /\ (Loaded(p) /\ pc[p] # "connect") =>
                 \A c \in Chains :
                     \E i \in Calls(p, "connect_to") : io[p][i].side = c
           /\ Disconnected(p) =>
                 /\ pc[p] = "done"
                 /\ ret[p] = <<0>>
                 /\ work = {}
           /\ work # {} =>
                 \A c \in Chains :
                     \E i \in asked :
                         /\ io[p][i].side = c
                         /\ io[p][i].val = <<TRUE>>
                         /\ \A j \in work : i < j

\* A source-direction pass found the source connected and the destination
\* not, and returned 0 with a "Failed to connect" line.
C11_Witness ==
    \E p \in Passes :
        /\ chain[p] = "source"
        /\ pc[p] = "done"
        /\ ret[p] = <<0>>
        /\ Lines(p, "Failed to connect") # {}
        /\ \E i, j \in Calls(p, "is_connected") :
              /\ io[p][i].side = "source" /\ io[p][i].val = <<TRUE>>
              /\ io[p][j].side = "destination" /\ io[p][j].val = <<FALSE>>

\* --------------------------------------------------------- the event query
\* The event query of pass p raised (filter creation or the fetch).
QueryFailed(p) ==
    \E i \in Calls(p, "get_all_entries") : ~io[p][i].ok

\* C12: a failing event query degrades to no events.  When the query of a
\* pass raised, the pass holds an empty event sequence and has ended by a
\* return, never by an exception: it printed the fetch failure and then the
\* no-events line, returned 0, and made no nonce read, no chain-id read and
\* no submission.
C12_QueryFailureDegrades ==
    \A p \in Passes :
        QueryFailed(p) =>
            /\ evts[p] = <<>>
            /\ pc[p] = "done"
            /\ ret[p] = <<0>>
            /\ \E i \in Lines(p, "Failed to fetch") :
                  \E j \in Lines(p, "No events") : i < j
            /\ Lines(p, "sent") = {} /\ Lines(p, "Failed to call") = {}
            /\ Calls(p, "get_transaction_count") = {}
            /\ Calls(p, "chain_id") = {}
            /\ Calls(p, "send_raw_transaction") = {}

\* The query of a pass raised although the window it asked for holds events
\* on the scanned chain, and the pass returned 0.
C12_Witness ==
    \E p \in Passes :
        /\ QueryFailed(p)
        /\ pc[p] = "done"
        /\ \E i \in Calls(p, "get_all_entries") :
              SelectEntries(ledger[io[p][i].side], io[p][i].val[1],
                            io[p][i].val[2], io[p][i].val[3]) # <<>>

\* ------------------------------------------------------ one attempt each
\* Positions in io[p] of the calls made for one event of the dispatch loop.
AttemptCalls(p) ==
    {i \in DOMAIN io[p] :
        io[p][i].op \in {"get_transaction_count", "chain_id",
                         "send_raw_transaction"}}

\* C13: at most one attempt per event.  Every call of the dispatch loop is
\* made for one of the retrieved events; no event has its nonce read, its
\* transaction built or its transaction submitted twice; the loop never goes
\* back to an earlier event, failed or not; so the submissions and the
\* printed outcomes of a pass never outnumber the events it retrieved.
C13_AtMostOneAttempt ==
    \A p \in Passes :
        LET made == AttemptCalls(p)
        IN /\ \A i \in made : io[p][i].evt \in 1..Len(evts[p])
           /\ \A i, j \in made :
                 /\ (io[p][i].op = io[p][j].op /\ io[p][i].evt = io[p][j].evt)
                       => i = j
                 /\ i < j => io[p][i].evt <= io[p][j].evt
           /\ Cardinality(Calls(p, "send_raw_transaction")) <= Len(evts[p])
           /\ Cardinality(Lines(p, "sent") \cup Lines(p, "Failed to call"))
                 <= Len(evts[p])

\* A pass that retrieved two events has ended; the submission for its first
\* event was refused and never made again, the second event was submitted.
C13_Witness ==
    \E p \in Passes :
        /\ pc[p] = "done"
        /\ Len(evts[p]) = 2
        /\ \E i, j \in Calls(p, "send_raw_transaction") :
              /\ io[p][i].evt = 1 /\ ~io[p][i].ok
              /\ io[p][j].evt = 2 /\ io[p][j].ok
        /\ Cardinality(Calls(p, "send_raw_transaction")) = 2

\* ----------------------------------------------------------------- nonces
\* The nonce of the transaction handed to send_raw_transaction at position
\* i of io[p].
SentNonce(p, i) == io[p][i].val[1].tx.nonce

\* C14: no two transactions submitted by one pass carry the same nonce,
\* however the count the target chain reports evolves between the two
\* submissions.  (Lines 120 / 158 read the count of mined transactions, so
\* while the transaction before is still in the pool the same count is
\* answered again.)
C14_DistinctNonces ==
    \A p \in Passes :
        \A i, j \in Calls(p, "send_raw_transaction") :
            i # j => SentNonce(p, i) # SentNonce(p, j)

\* ---------------------------------------------------------- serialization
\* The events of pass p whose attempt has begun (their nonce was asked for).
Started(p) == {io[p][i].evt : i \in Calls(p, "get_transaction_count")}

\* The events of pass p whose attempt is finished: the submission returned
\* and its line was printed, or a step failed and the except clause printed
\* the failure.  Each finished attempt prints exactly one of the two lines.
Finished(p) ==
    1..Cardinality(Lines(p, "sent") \cup Lines(p, "Failed to call"))

\* C15: the per-event pipelines of one pass are strictly serialized in
\* retrieval order.  The calls in the log are ordered by event; while the
\* loop is at event k every earlier event is finished and has its printed
\* outcome, and event k is the only one that may be unfinished, so no two
\* submissions are in flight; the nonce held for event k is the count the
\* chain answered to the read made for event k, and every submitted
\* transaction carries the count answered to its own event's read.
C15_Serialized ==
    \A p \in Passes :
        /\ \A i, j \in AttemptCalls(p) : i < j => io[p][i].evt <= io[p][j].evt
        /\ Started(p) \ Finished(p) \subseteq {idx[p]}
        /\ Len(signed[p]) <= 1
        /\ pc[p] \in {"nonce", "build", "send"} =>
              /\ Finished(p) = 1..(idx[p] - 1)
              /\ \A i \in Calls(p, "send_raw_transaction") :
                    io[p][i].evt < idx[p]
        /\ Over(p) => Started(p) = Finished(p)
        /\ pc[p] \in {"build", "send"} =>
              \E i \in Calls(p, "get_transaction_count") :
                  /\ io[p][i].evt = idx[p]
                  /\ io[p][i].ok
                  /\ nonce[p] = io[p][i].val[2]
        /\ pc[p] = "send" => signed[p][1].tx.nonce = nonce[p]
        /\ \A s \in Calls(p, "send_raw_transaction") :
              \E i \in Calls(p, "get_transaction_count") :
                  /\ i < s
                  /\ io[p][i].evt = io[p][s].evt
                  /\ SentNonce(p, s) = io[p][i].val[2]

\* A pass is about to submit for its second event: the first event was
\* submitted with nonce 0 and mined, and the read made for the second event
\* answered 1, which the signed transaction carries.
C15_Witness ==
    \E p \in Passes :
        /\ pc[p] = "send"
        /\ idx[p] = 2
        /\ signed[p][1].tx.nonce = 1
        /\ \E s \in Calls(p, "send_raw_transaction") :
              io[p][s].evt = 1 /\ io[p][s].ok /\ SentNonce(p, s) = 0

\* ------------------------------------------------------------- the warden
\* The warden of pass p was resolved (lines 81-89 assigned it).
Resolved(p) == warden[p] # NoWarden

\* The credential lines 81-89 take from entry m.
CredentialOf(m) ==
    [pk |-> m.warden_private_key, addr |-> to_checksum_address(m.warden_address)]

\* C19: one warden credential per pass.  A resolved warden is the credential
\* of the source entry whenever that entry has a private key, also when the
\* destination entry has one too, and the credential of the destination
\* entry only when the source entry has none; the requested direction plays
\* no part.  No call of the dispatch loop is made before the warden is
\* resolved, every nonce read asks for that warden's address, and every
\* transaction of the pass is sent from that address and signed with that
\* key.
C19_SingleWarden ==
    \A p \in Passes :
        /\ Resolved(p) =>
              IF "warden_private_key" \in meta[p].source.keys
              THEN warden[p] = CredentialOf(meta[p].source)
              ELSE /\ "warden_private_key" \in meta[p].destination.keys
                   /\ warden[p] = CredentialOf(meta[p].destination)
        /\ AttemptCalls(p) # {} \/ pc[p] \in {"query", "nonce", "build", "send"}
              => Resolved(p)
        /\ \A i \in Calls(p, "get_transaction_count") :
              io[p][i].val[1] = warden[p].addr
        /\ \A i \in Calls(p, "send_raw_transaction") :
              /\ io[p][i].val[1].signer = warden[p].pk
              /\ io[p][i].val[1].tx.from = warden[p].addr
        /\ \A i \in DOMAIN signed[p] :
              /\ signed[p][i].signer = warden[p].pk
              /\ signed[p][i].tx.from = warden[p].addr

\* A destination-direction pass whose source and destination entries both
\* carry a private key submitted a transaction signed with the source
\* entry's key.
C19_Witness ==
    \E p \in Passes :
        /\ chain[p] = "destination"
        /\ "warden_private_key" \in meta[p].source.keys
        /\ "warden_private_key" \in meta[p].destination.keys
        /\ meta[p].source.warden_private_key
              # meta[p].destination.warden_private_key
        /\ \E i \in Calls(p, "send_raw_transaction") :
              /\ io[p][i].ok
              /\ io[p][i].val[1].signer = meta[p].source.warden_private_key

\* ---------------------------------------------------------- repeated passes
\* A caller that runs the pass twice in the same direction, the second call
\* ("B") after the first ("A") has returned, against nodes that answer: the
\* configuration is complete, both sessions are connected, the heights are
\* read, the query and the nonce and chain-id reads answer, the build and
\* the signing succeed; a submission may still be refused.  Between the two
\* calls the chain does not get shorter.
GoodInfo ==
    ContractInfo("ok", Chains, Keyed("pkS", Address("wS", "lower")),
                 Keyed("pkD", Address("wD", "checksum")))

\* The step of pass p that is being taken is answered without a failure
\* before the submission, and both chains are at the same height.
Answered(p) ==
    /\ pc'[p] # "crashed"
    /\ pc[p] = "idle" => contract_info'[p] = GoodInfo /\ pc'[p] = "load"
    /\ pc[p] = "connect" => pc'[p] = "heights"
    /\ pc[p] = "heights" => latest'[p].source = latest'[p].destination
    /\ pc[p] = "query" => io'[p][Len(io'[p])].ok
    /\ pc[p] \in {"nonce", "build"} => out'[p] = out[p]

FirstPass ==
    /\ \/ Call("A")
       \/ LoadConfig("A")
       \/ Connect("A")
       \/ ReadHeights("A")
       \/ ResolveWarden("A")
       \/ Query("A")
       \/ ReadNonce("A")
       \/ BuildSign("A")
       \/ Send("A")
    /\ Answered("A")

SecondPass ==
    /\ pc["A"] = "done"
    /\ \/ Call("B")
       \/ LoadConfig("B")
       \/ Connect("B")
       \/ ReadHeights("B")
       \/ ResolveWarden("B")
       \/ Query("B")
       \/ ReadNonce("B")
       \/ BuildSign("B")
       \/ Send("B")
    /\ Answered("B")
    /\ chain'["B"] = chain["A"]
    /\ pc["B"] = "heights" =>
          latest'["B"].source >= latest["A"].source

NextRepeat ==
    \/ FirstPass
    \/ SecondPass
    \/ \E c \in Chains : Mine(c)

SpecRepeat == Init /\ [][NextRepeat]_vars

\* Positions in the scanned chain's log of the events of the kind the
\* direction of pass p relays whose block lies in the five-block windows
\* ending at the heights h1 and h2.
InBothWindows(p, h1, h2) ==
    LET log == ledger[ScannedSide(chain[p])]
    IN {k \in DOMAIN log :
          /\ log[k].event = EventName(chain[p])
          /\ log[k].blockNumber <= h1 /\ log[k].blockNumber >= h1 - 4
          /\ log[k].blockNumber <= h2 /\ log[k].blockNumber >= h2 - 4}

\* Pass p retrieved event e and handed exactly one transaction for it to
\* send_raw_transaction, carrying the event's arguments.
RelayedOnce(p, e) ==
    \E n \in DOMAIN evts[p] :
        /\ evts[p][n] = e
        /\ Cardinality({i \in Calls(p, "send_raw_transaction") :
                            io[p][i].evt = n}) = 1
        /\ \A i \in Calls(p, "send_raw_transaction") :
              io[p][i].evt = n =>
                 io[p][i].val[1].tx.args
                    = <<e.args.token, e.args.recipient, PyInt(e.args.amount)>>

\* C16: no deduplication across passes.  When two passes in the same
\* direction, run one after the other at heights h1 <= h2, have both ended,
\* every event of the relayed kind whose block lies inside both windows was
\* retrieved by the first pass and again by the second, and each of the two
\* passes submitted one transaction for it: what the first pass relayed
\* does not keep the second from relaying it again.
C16_NoDeduplication ==
    (pc["A"] = "done" /\ pc["B"] = "done") =>
        LET side == ScannedSide(chain["A"])
            h1 == latest["A"][side]
            h2 == latest["B"][side]
        IN /\ chain["B"] = chain["A"]
           /\ h1 <= h2
           /\ \A k \in InBothWindows("A", h1, h2) :
                 /\ RelayedOnce("A", ledger[side][k])
                 /\ RelayedOnce("B", ledger[side][k])

\* Two passes at different heights no more than four blocks apart have both
\* ended, and the node accepted a transaction for the same event from each.
C16_Witness ==
    /\ pc["A"] = "done" /\ pc["B"] = "done"
    /\ latest["A"][ScannedSide(chain["A"])]
          < latest["B"][ScannedSide(chain["A"])]
    /\ \E i \in Lines("A", "sent") :
          \E j \in Lines("B", "sent") :
              /\ out["A"][i].origin = out["B"][j].origin
              /\ out["A"][i].hash[1].tx.args = out["B"][j].hash[1].tx.args

\* --------------------------------------------------------- concurrent passes
\* Two callers, "A" and "B", each run the pass once, in any directions and
\* interleaved step by step, against nodes that answer (as in SpecRepeat).
\* The callers either use no lock or put one lock per direction around the
\* whole call: taken before scan_blocks is called, given back after it has
\* returned.
NoLock == [d \in Chains |-> "off"]
FreeLock == [d \in Chains |-> "free"]

InitPar ==
    /\ pc = [p \in Passes |-> "idle"]
    /\ chain = [p \in Passes |-> "-"]
    /\ contract_info = [p \in Passes |-> NoInfo]
    /\ meta = [p \in Passes |-> NoMeta]
    /\ latest = [p \in Passes |-> NoLatest]
    /\ warden = [p \in Passes |-> NoWarden]
    /\ evts = [p \in Passes |-> <<>>]
    /\ idx = [p \in Passes |-> 0]
    /\ nonce = [p \in Passes |-> 0]
    /\ signed = [p \in Passes |-> <<>>]
    /\ ret = [p \in Passes |-> <<>>]
    /\ io = [p \in Passes |-> <<>>]
    /\ out = [p \in Passes |-> <<>>]
    /\ txCount = [c \in Chains |-> 0]
    /\ pending = [c \in Chains |-> {}]
    /\ ledger \in Ledgers
    /\ lock \in {NoLock, FreeLock}

\* The caller of pass p takes the lock of direction d before the call.
Acquire(p, d) ==
    /\ pc[p] = "idle"
    /\ lock[d] = "free"
    /\ \A c \in Chains : lock[c] # p
    /\ lock' = [lock EXCEPT ![d] = p]
    /\ UNCHANGED <<pc, locals, ret, io, out, txCount, pending, ledger>>

\* The caller of pass p gives the lock back after the call has returned.
Release(p) ==
    /\ Over(p)
    /\ chain[p] \in Chains
    /\ lock[chain[p]] = p
    /\ lock' = [lock EXCEPT ![chain[p]] = "free"]
    /\ UNCHANGED <<pc, locals, ret, io, out, txCount, pending, ledger>>

\* One step of pass p; where locks are used the call is made in the
\* direction whose lock the caller holds.
Step(p) ==
    /\ \/ Call(p)
       \/ LoadConfig(p)
       \/ Connect(p)
       \/ ReadHeights(p)
       \/ ResolveWarden(p)
       \/ Query(p)
       \/ ReadNonce(p)
       \/ BuildSign(p)
       \/ Send(p)
    /\ Answered(p)
    /\ pc[p] = "idle" => lock[chain'[p]] \in {"off", p}

NextPar ==
    \/ \E p \in Passes : Step(p)
    \/ \E p \in Passes, d \in Chains : Acquire(p, d)
    \/ \E p \in Passes : Release(p)
    \/ \E c \in Chains : Mine(c)

SpecPar == InitPar /\ [][NextPar]_vars

\* Positions in io[p] of the submissions of pass p the node accepted.
AcceptedSends(p) ==
    {i \in Calls(p, "send_raw_transaction") : io[p][i].ok}

\* C17: passes in opposite directions do not interfere on nonces.  When
\* the two passes run in different directions, each makes its nonce reads,
\* chain-id reads and submissions on the chain opposite to the one it
\* scans; the warden's mined and pooled nonces on that chain are exactly
\* the nonces of that pass's own accepted submissions; and every count a
\* pass is answered is accounted for by its own earlier accepted
\* submissions, as when it runs alone.
C17_NoNonceInterference ==
    \A p \in Passes :
        \A q \in Passes \ {p} :
            (chain[p] \in Chains /\ chain[q] \in Chains /\ chain[p] # chain[q])
            =>
            LET t == IF chain[p] = "source" THEN "destination" ELSE "source"
            IN /\ \A i \in AttemptCalls(p) : io[p][i].side = t
               /\ pending[t] \cup 0..(txCount[t] - 1)
                     = {SentNonce(p, i) : i \in AcceptedSends(p)}
               /\ \A i \in Calls(p, "get_transaction_count") :
                     \A n \in 0..(io[p][i].val[2] - 1) :
                         \E j \in AcceptedSends(p) :
                             j < i /\ SentNonce(p, j) = n

\* A source-direction and a destination-direction pass have both ended;
\* the source-direction pass was answered count 1 after its own first
\* transaction was mined, the destination-direction pass submitted with
\* nonce 0, and each chain holds a mined or pooled warden transaction.
C17_Witness ==
    \E p \in Passes :
        \E q \in Passes \ {p} :
            /\ pc[p] = "done" /\ pc[q] = "done"
            /\ chain[p] = "source" /\ chain[q] = "destination"
            /\ \E i \in Calls(p, "get_transaction_count") : io[p][i].val[2] = 1
            /\ \E j \in AcceptedSends(q) : SentNonce(q, j) = 0
            /\ Cardinality(AcceptedSends(p)) = 2

\* Pass p is between its call and its return.
Active(p) == pc[p] \notin {"idle", "done", "crashed"}

\* Pass p holds a count it was answered for its current event and has not
\* yet submitted the transaction built with it.
HoldsNonce(p) == pc[p] \in {"build", "send"}

\* C18: same-direction passes and the external lock.  The transaction a
\* pass is about to submit carries the count answered to the read it made
\* for that event, whatever another pass did since; and where the callers
\* put a lock around the whole pass, two passes in the same direction are
\* never between call and return together, so they never both hold a count
\* read before either has submitted.
C18_ExclusionPreventsInterleavedRead ==
    \A p \in Passes :
        /\ pc[p] = "send" =>
              \E i \in Calls(p, "get_transaction_count") :
                  /\ io[p][i].evt = idx[p]
                  /\ signed[p][1].tx.nonce = io[p][i].val[2]
        /\ \A q \in Passes \ {p} :
              (lock # NoLock /\ chain[p] \in Chains /\ chain[p] = chain[q])
              => /\ ~(Active(p) /\ Active(q))
                 /\ ~(HoldsNonce(p) /\ HoldsNonce(q))
                 /\ Active(p) => lock[chain[p]] = p

\* Without a lock, two passes in the same direction both hold the same
\* count for the same target chain, each has its transaction signed with it
\* and is about to submit, and neither has submitted with that count yet.
C18_Witness ==
    /\ lock = NoLock
    /\ chain["A"] \in Chains
    /\ chain["A"] = chain["B"]
    /\ pc["A"] = "send" /\ pc["B"] = "send"
    /\ signed["A"][1].tx.nonce = signed["B"][1].tx.nonce
    /\ signed["A"][1].tx.to = signed["B"][1].tx.to
    /\ \A p \in Passes :
          \A i \in Calls(p, "send_raw_transaction") :
              SentNonce(p, i) # signed["A"][1].tx.nonce

====
